---- MODULE Spec2Model ----
(***************************************************************************)
(* Model of backend/service/models.py: the Base record layer over a        *)
(* Cloudant/CouchDB document store.                                         *)
(*                                                                          *)
(* The store is reached through the python-cloudant client, whose database  *)
(* object is also a local dictionary of the documents it has handed out;    *)
(* the retry decorator comes from the retry package.  Both are modelled by  *)
(* what the calls made in models.py do: each definition names the call.     *)
(***************************************************************************)
EXTENDS Integers, Sequences, FiniteSets, TLC

\* ------------------------------------------------------------------ bounds
MaxDocs == 2        \* number of document ids the store can hand out
MaxTries == 2       \* the configured retry count the model runs with

\* --------------------------------------------------------------- constants
\* RETRY_COUNT = int(os.getenv("RETRY_COUNT", "10")): a configured positive
\* number of tries; the model runs with MaxTries.
RETRY_COUNT == MaxTries
NoId == 0           \* self.id = None
Null == "null"      \* Python None as a field value
\* a store that fails transiently on every request: more failures than any
\* call makes attempts
Always == RETRY_COUNT * RETRY_COUNT

Names == {"a", "b"}
Ids == 1..MaxDocs
Fields == {"host", "username", "password", "port", "url"}

VARIABLES
    store,      \* id -> the document as the client sees it, with the remote state
    indexed,    \* a query index (a design document) exists in the database
    rec,        \* the record object in the caller's hands: [name, id]
    call,       \* the operation in progress, or the last one returned
    created,    \* history: what the last create() that assigned an id stored, and
                \* posts, the documents the last call of create() added to the store
    env,        \* the process environment read by init_db
    client,     \* Base.client
    database,   \* Base.database
    probed,     \* history: the credential sources init_db consulted, in order
    opts,       \* history: the credential mapping init_db resolved
    initres,    \* history: how the last init_db call ended ("none": not called)
    dialed,     \* history: the last init_db call constructed a Cloudant client
    boot,       \* create_app: "none" (not run), "initialized", "exit4"
    srv,        \* concurrent updates: the stored document, [rev, name]
    cache,      \* concurrent updates: the Document object Base.database holds
    objs,       \* concurrent updates: the Document objects, [rev, name] each
    th,         \* concurrent updates: each request thread inside update()
    last        \* history: the thread whose PUT the store accepted last

vars == <<store, indexed, rec, call, created, env, client, database, probed, opts, initres,
          dialed, boot, srv, cache, objs, th, last>>
crud == <<store, indexed, rec, call, created>>
conn == <<env, client, database, probed, opts, initres, dialed, boot>>
upd == <<srv, cache, objs, th, last>>

\* ---------------------------------------------------------- the documents
\* A document id is in one of four states:
\*   absent : never stored, not in the client's dictionary;
\*   live   : stored remotely, the client's copy carries its _rev;
\*   shell  : deleted remotely; Document.delete() cleared the client's copy
\*            down to {_id} (models.py:247-249);
\*   norev  : stored remotely, but the client's copy carries no _rev:
\*            create_document() met an existing _id, and the client keeps the
\*            document it was asked to create.
\* name is the stored name (Null when nothing is stored).
Doc(st, name) == [st |-> st, name |-> name]
Absent == Doc("absent", Null)
Shell == Doc("shell", Null)
DocStates == {Absent, Shell} \cup
    {Doc(st, n) : st \in {"live", "norev"}, n \in Names \cup {Null}}

Remote(d) == d.st \in {"live", "norev"}
Cached(d) == d.st # "absent"
HasRev(d) == d.st = "live"

\* The document as a mapping, as the client's dictionary holds it.
DocView(s, i) ==
    IF s[i].st = "live" THEN [name |-> s[i].name, _id |-> i, _rev |-> TRUE]
    ELSE [_id |-> i]

\* The document as a mapping, as a remote read (all_docs, a query) returns it.
RemoteView(s, i) == [name |-> s[i].name, _id |-> i, _rev |-> TRUE]

RemoteIds(s) == {i \in Ids : Remote(s[i])}
FreeIds(s) == {i \in Ids : s[i].st = "absent"}
Min(S) == CHOOSE x \in S : \A y \in S : x <= y

\* ------------------------------------------------------------- the record
Base(name) == [name |-> name, id |-> NoId]

serialize(r) ==
    IF r.id # NoId THEN [name |-> r.name, _id |-> r.id]
    ELSE [name |-> r.name]

\* Python None where a mapping is expected, and the empty mapping {}
None == [NoneType |-> TRUE]
EmptyDict == [k \in {} |-> TRUE]
IsDict(data) == "NoneType" \notin DOMAIN data

\* deserialize() reading data.get("name"): a missing name becomes None
deserializeLenient(r, data) ==
    IF ~IsDict(data)
    THEN [exc |-> "DataValidationError", rec |-> r]
    ELSE LET named == [r EXCEPT !.name = IF "name" \in DOMAIN data THEN data.name ELSE Null]
         IN  [exc |-> "none",
              rec |-> IF r.id = NoId /\ "_id" \in DOMAIN data
                      THEN [named EXCEPT !.id = data["_id"]]
                      ELSE named]

\* deserialize() without "if not self.id": the _id of the data always wins
deserializeOverwrite(r, data) ==
    IF ~IsDict(data) \/ "name" \notin DOMAIN data
    THEN [exc |-> "DataValidationError", rec |-> r]
    ELSE LET named == [r EXCEPT !.name = data.name]
         IN  [exc |-> "none",
              rec |-> IF "_id" \in DOMAIN data
                      THEN [named EXCEPT !.id = data["_id"]]
                      ELSE named]

\* deserialize() that never reads the _id of the data
deserializeNoId(r, data) ==
    IF ~IsDict(data) \/ "name" \notin DOMAIN data
    THEN [exc |-> "DataValidationError", rec |-> r]
    ELSE [exc |-> "none", rec |-> [r EXCEPT !.name = data.name]]

\* deserialize(data): [exc, rec].  data["name"] raises TypeError for None and
\* KeyError for a mapping without the key; both become DataValidationError
\* before anything is assigned.
deserialize(r, data) ==
    IF ~IsDict(data) \/ "name" \notin DOMAIN data
    THEN [exc |-> "DataValidationError", rec |-> r]
    ELSE LET named == [r EXCEPT !.name = data.name]
         IN  [exc |-> "none",
              rec |-> IF r.id = NoId /\ "_id" \in DOMAIN data
                      THEN [named EXCEPT !.id = data["_id"]]
                      ELSE named]

\* ------------------------------------------------- the wrapped operations
\* One execution of a method body.  t is what the transport does to the
\* remote requests of this execution: "ok", "http" (requests.HTTPError, the
\* transient class) or "other" (any other transport error, such as
\* requests.ConnectionError).  The result is the exception raised ("none"
\* for a normal return), the value returned (a set of records; {} for None
\* and for an empty list), the state left behind and the number of requests
\* sent to the store.
Res(exc, value, s, r, ix, reqs) ==
    [exc |-> exc, value |-> value, store |-> s, rec |-> r, indexed |-> ix, reqs |-> reqs]

TransportExc(t) == IF t = "http" THEN "HTTPError" ELSE "ConnectionError"

\* self.database[key]: "AttributeError" for a None key (the client calls
\* key.startswith before any request), the cached document if the client
\* holds one, else a remote existence request: "KeyError" when the store has
\* no such document.
Lookup(s, key, t) ==
    IF key = NoId THEN "AttributeError"
    ELSE IF Cached(s[key]) THEN "doc"
    ELSE IF t # "ok" THEN TransportExc(t)
    ELSE "KeyError"

LookupReqs(s, key) == IF key = NoId \/ Cached(s[key]) THEN 0 ELSE 1

\* find() without the read of document["_rev"]: whatever the lookup yields
\* is deserialized and returned
findBodyNoRev(s, r, ix, i, t) ==
    LET got == Lookup(s, i, t)
        n == LookupReqs(s, i)
        made == deserialize(Base(Null), DocView(s, i))
    IN  IF got = "doc"
        THEN IF made.exc = "none" THEN Res("none", {made.rec}, s, r, ix, n)
             ELSE Res(made.exc, {}, s, r, ix, n)
        ELSE IF got = "KeyError" THEN Res("none", {}, s, r, ix, n)
        ELSE Res(got, {}, s, r, ix, n)

\* find(record_id), record_id a str
findBody(s, r, ix, i, t) ==
    LET got == Lookup(s, i, t)
        n == LookupReqs(s, i)
    IN  IF got = "doc"
        THEN IF "_rev" \in DOMAIN DocView(s, i)
             THEN Res("none", {deserialize(Base(Null), DocView(s, i)).rec}, s, r, ix, n)
             ELSE Res("none", {}, s, r, ix, n)      \* KeyError on _rev: return None
        ELSE IF got = "KeyError" THEN Res("none", {}, s, r, ix, n)
        ELSE Res(got, {}, s, r, ix, n)

\* "if document:" is the truth value of a mapping: false for None and for {}
Truthy(view) == DOMAIN view # {}

\* document.save(): an existence request, then a PUT of the client's copy
\* with its _rev, or a POST when the store has no such document.  A PUT
\* without _rev of a stored document is refused with 409, an HTTPError.
saveDoc(s, i, name, t) ==
    IF t # "ok" THEN [exc |-> TransportExc(t), store |-> s, reqs |-> 1]
    ELSE IF s[i].st = "norev" THEN [exc |-> "HTTPError", store |-> s, reqs |-> 2]
    ELSE [exc |-> "none", store |-> [s EXCEPT ![i] = Doc("live", name)], reqs |-> 2]

updateBody(s, r, ix, t) ==
    LET got == Lookup(s, r.id, t)
        n == LookupReqs(s, r.id)
    IN  IF got = "KeyError" THEN Res("none", {}, s, r, ix, n)   \* document = None
        ELSE IF got # "doc" THEN Res(got, {}, s, r, ix, n)
        ELSE IF ~Truthy(DocView(s, r.id)) THEN Res("none", {}, s, r, ix, n)
        ELSE LET saved == saveDoc(s, r.id, serialize(r).name, t)
             IN  Res(saved.exc, {}, saved.store, r, ix, saved.reqs)

\* document.delete(): raises CloudantDocumentException when the client's copy
\* has no _rev, else a DELETE request, after which the copy is cleared to {_id}.
deleteDoc(s, i, t) ==
    IF ~HasRev(s[i]) THEN [exc |-> "CloudantDocumentException", store |-> s, reqs |-> 0]
    ELSE IF t # "ok" THEN [exc |-> TransportExc(t), store |-> s, reqs |-> 1]
    ELSE [exc |-> "none", store |-> [s EXCEPT ![i] = Shell], reqs |-> 1]

deleteBody(s, r, ix, t) ==
    LET got == Lookup(s, r.id, t)
        n == LookupReqs(s, r.id)
    IN  IF got = "KeyError" THEN Res("none", {}, s, r, ix, n)
        ELSE IF got # "doc" THEN Res(got, {}, s, r, ix, n)
        ELSE IF ~Truthy(DocView(s, r.id)) THEN Res("none", {}, s, r, ix, n)
        ELSE LET gone == deleteDoc(s, r.id, t)
             IN  Res(gone.exc, {}, gone.store, r, ix, gone.reqs)

\* self.database.create_document(data): a POST.  Without _id the store picks
\* a new id.  With the _id of a stored document the store answers 409, which
\* the client does not raise: it keeps and returns the document it was asked
\* to create, which has no _rev.  [exc, store, id]
createDocument(s, data, t) ==
    LET i == IF "_id" \in DOMAIN data THEN data["_id"] ELSE Min(FreeIds(s))
    IN  IF t # "ok" THEN [exc |-> TransportExc(t), store |-> s, id |-> NoId]
        ELSE IF Remote(s[i])
        THEN [exc |-> "none", store |-> [s EXCEPT ![i] = Doc("norev", s[i].name)], id |-> i]
        ELSE [exc |-> "none", store |-> [s EXCEPT ![i] = Doc("live", data.name)], id |-> i]

\* create() without the check of self.name
createBodyUnchecked(s, r, ix, t, at, ex) ==
    LET made == createDocument(s, serialize(r), IF at = "post" THEN t ELSE "ok")
    IN  IF made.exc = "HTTPError" THEN Res("none", {}, s, r, ix, 1)
        ELSE IF made.exc # "none" THEN Res(made.exc, {}, s, r, ix, 1)
        ELSE IF at = "head" /\ t # "ok"
        THEN Res(TransportExc(t), {}, made.store, r, ix, 2)
        ELSE IF ex
        THEN Res("none", {}, made.store, [r EXCEPT !.id = made.id], ix, 2)
        ELSE Res("none", {}, made.store, r, ix, 2)

\* create(): at says which of its two requests the transport outcome t hits
\* ("post": create_document, "head": document.exists()); ex is the answer of
\* the existence request when it is served.
createBody(s, r, ix, t, at, ex) ==
    IF r.name = Null THEN Res("DataValidationError", {}, s, r, ix, 0)
    ELSE LET made == createDocument(s, serialize(r), IF at = "post" THEN t ELSE "ok")
         IN  IF made.exc = "HTTPError" THEN Res("none", {}, s, r, ix, 1)  \* logged, return
             ELSE IF made.exc # "none" THEN Res(made.exc, {}, s, r, ix, 1)
             ELSE IF at = "head" /\ t # "ok"
             THEN Res(TransportExc(t), {}, made.store, r, ix, 2)
             ELSE IF ex
             THEN Res("none", {}, made.store, [r EXCEPT !.id = made.id], ix, 2)
             ELSE Res("none", {}, made.store, r, ix, 2)

\* create_query_index(): one request; the index is a design document
createQueryIndexBody(s, r, ix, t) ==
    IF t # "ok" THEN Res(TransportExc(t), {}, s, r, ix, 1)
    ELSE Res("none", {}, s, r, TRUE, 1)

\* Iterating cls.database lists the stored documents, design documents first,
\* and puts a fresh copy of each document it yields, with its _rev, into the
\* client's dictionary.
Refreshed(s, ids) ==
    [i \in Ids |-> IF i \in ids /\ Remote(s[i]) THEN Doc("live", s[i].name) ELSE s[i]]

\* all(): a design document has no name, so deserialize() refuses it
allBody(s, r, ix, t) ==
    IF t # "ok" THEN Res(TransportExc(t), {}, s, r, ix, 1)
    ELSE IF ix THEN Res("DataValidationError", {}, s, r, ix, 1)
    ELSE Res("none",
             {[deserialize(Base(Null), RemoteView(s, i)).rec EXCEPT !.id = i] :
                 i \in RemoteIds(s)},
             Refreshed(s, RemoteIds(s)), r, ix, 1)

\* remove_all(): with a transport error, k is the number of listed documents
\* deleted before the request that fails (-1: the listing itself fails).
Deleted(s, ids) == [i \in Ids |-> IF i \in ids THEN Shell ELSE s[i]]
FirstIds(s, k) == {i \in RemoteIds(s) : Cardinality({j \in RemoteIds(s) : j < i}) < k}

\* the documents iteration yields: the design document, then the records
Listed(s, ix) == Cardinality(RemoteIds(s)) + (IF ix THEN 1 ELSE 0)

removeAllBody(s, r, ix, t, k) ==
    LET n == IF ix THEN k - 1 ELSE k      \* records deleted before the failure
    IN  IF t = "ok"
        THEN Res("none", {}, Deleted(s, RemoteIds(s)), r, FALSE, 1 + Listed(s, ix))
        ELSE IF n < 0 THEN Res(TransportExc(t), {}, s, r, ix, k + 2)
        ELSE Res(TransportExc(t), {},
                 Deleted(Refreshed(s, FirstIds(s, n + 1)), FirstIds(s, n)), r, FALSE, k + 2)

\* find_by(name=...): a query; its rows are plain mappings, not kept by the client
findByBody(s, r, ix, name, t) ==
    IF t # "ok" THEN Res(TransportExc(t), {}, s, r, ix, 1)
    ELSE Res("none",
             {deserialize(Base(Null), RemoteView(s, i)).rec :
                 i \in {j \in RemoteIds(s) : s[j].name = name}},
             s, r, ix, 1)

\* find_by_name(name): return cls.find_by(name=name)
findByNameBody(s, r, ix, name, t) == findByBody(s, r, ix, name, t)

\* ------------------------------------------------------- the retry policy
\* @retry(HTTPError, delay=RETRY_DELAY, backoff=RETRY_BACKOFF, tries=RETRY_COUNT):
\*     _tries = tries
\*     while _tries:
\*         try: return f()
\*         except HTTPError: _tries -= 1; if not _tries: raise; sleep(_delay); ...
\* a decorator that catches Exception instead of HTTPError
RetryOnAny(exc) == exc # "none"

RetryOn(exc) == exc = "HTTPError"

\* The number of retry decorators between the caller and the store:
\* find_by_name is decorated and calls find_by, which is decorated too.
Wrappers(op) == IF op = "find_by_name" THEN 2 ELSE 1

Tries(op) == [j \in 1..Wrappers(op) |-> RETRY_COUNT]

\* a decorator that counts one try too few: "if _tries <= 1: raise"
RECURSIVE RaiseEarly(_)
RaiseEarly(ts) ==
    IF ts = <<>> THEN <<>>
    ELSE IF Head(ts) - 1 > 1 THEN <<Head(ts) - 1>> \o Tail(ts)
    ELSE LET outer == RaiseEarly(Tail(ts))
         IN  IF outer = <<>> THEN <<>> ELSE <<RETRY_COUNT>> \o outer

\* The remaining tries of each decorator, innermost first, after the body
\* raised the transient error; <<>> when the error reaches the caller.  An
\* outer decorator that tries again calls the inner function anew.
RECURSIVE Raise(_)
Raise(ts) ==
    IF ts = <<>> THEN <<>>
    ELSE IF Head(ts) - 1 > 0 THEN <<Head(ts) - 1>> \o Tail(ts)
    ELSE LET outer == Raise(Tail(ts))
         IN  IF outer = <<>> THEN <<>> ELSE <<RETRY_COUNT>> \o outer

Plans == {[fails |-> n, then |-> x] : n \in 0..(RETRY_COUNT - 1), x \in {"ok", "other"}}
             \cup {[fails |-> Always, then |-> "http"]}

Idle == [op |-> "none", id |-> NoId, name |-> Null, fails |-> 0, then |-> "ok",
         tries |-> <<>>, attempts |-> 0, sleeps |-> 0, reqs |-> 0, pc |-> "idle",
         lastexc |-> "none", outcome |-> "none", value |-> {}]

NoCreated == [id |-> NoId, name |-> Null, fresh |-> FALSE, posts |-> 0]

\* what the transport does to the requests of the next execution of the body
Transport(c) == IF c.attempts < c.fails THEN "http" ELSE c.then

\* the call after one execution of the body ended as res
After(c, res) ==
    LET c1 == [c EXCEPT !.attempts = @ + 1, !.reqs = @ + res.reqs, !.lastexc = res.exc]
    IN  IF res.exc = "none"
        THEN [c1 EXCEPT !.pc = "done", !.outcome = "ok", !.value = res.value]
        ELSE IF RetryOn(res.exc)
        THEN LET ts == Raise(c.tries)
             IN  IF ts = <<>>
                 THEN [c1 EXCEPT !.pc = "done", !.outcome = res.exc, !.tries = ts]
                 ELSE [c1 EXCEPT !.tries = ts, !.sleeps = @ + 1]
        ELSE [c1 EXCEPT !.pc = "done", !.outcome = res.exc]

Apply(res) ==
    /\ store' = res.store
    /\ rec' = res.rec
    /\ indexed' = res.indexed
    /\ call' = After(call, res)

\* ----------------------------------------------------------------- actions
\* The caller constructs a record: Base(name)
NewRecord ==
    /\ call.pc # "run"
    /\ \E n \in Names \cup {Null} : rec' = Base(n)
    /\ call' = Idle
    /\ UNCHANGED <<store, indexed, created>>
    /\ UNCHANGED <<conn, upd>>

Payloads ==
    {[name |-> n] : n \in Names} \cup {[name |-> n, _id |-> i] : n \in Names, i \in Ids}
        \cup {[_id |-> i] : i \in Ids} \cup {None, EmptyDict}

\* The caller fills the record from a mapping: record.deserialize(data)
Deserialize ==
    /\ call.pc # "run"
    /\ \E data \in Payloads :
         LET got == deserialize(rec, data)
         IN  /\ rec' = got.rec
             /\ call' = [Idle EXCEPT !.op = "deserialize", !.pc = "done", !.attempts = 1,
                                     !.outcome = IF got.exc = "none" THEN "ok" ELSE got.exc]
    /\ UNCHANGED <<store, indexed, created>>
    /\ UNCHANGED <<conn, upd>>

\* The caller serializes the record and builds a new one from the mapping:
\* Base().deserialize(record.serialize()); the new record is the value
RoundTrip ==
    /\ call.pc # "run"
    /\ LET got == deserialize(Base(Null), serialize(rec))
       IN  call' = [Idle EXCEPT !.op = "roundtrip", !.pc = "done", !.attempts = 1,
                                !.outcome = IF got.exc = "none" THEN "ok" ELSE got.exc,
                                !.value = IF got.exc = "none" THEN {got.rec} ELSE {}]
    /\ UNCHANGED <<store, indexed, rec, created>>
    /\ UNCHANGED <<conn, upd>>

\* the calls a caller can make: the operation with its argument
Requests ==
    {[op |-> op, id |-> NoId, name |-> Null] :
        op \in {"create", "update", "delete", "create_query_index", "remove_all", "all"}}
    \cup {[op |-> "find", id |-> i, name |-> Null] : i \in Ids}
    \cup {[op |-> op, id |-> NoId, name |-> n] : op \in {"find_by", "find_by_name"}, n \in Names}

\* The caller calls a wrapped operation; the plan is what the transport will
\* do during the call: fail transiently on the first `fails` attempts, and
\* after them work ("ok") or break ("other").
Invoke ==
    /\ call.pc # "run"
    /\ \E q \in Requests, plan \in Plans :
         /\ call' = [Idle EXCEPT !.op = q.op, !.pc = "run", !.tries = Tries(q.op),
                                 !.fails = plan.fails, !.then = plan.then,
                                 !.id = q.id, !.name = q.name]
         /\ created' = IF \/ q.op \in {"update", "delete"} /\ rec.id = created.id
                          \/ q.op = "remove_all"
                       THEN NoCreated ELSE [created EXCEPT !.posts = 0]
    /\ UNCHANGED <<store, indexed, rec>>
    /\ UNCHANGED <<conn, upd>>

Running(op) == call.pc = "run" /\ call.op = op

StepCreate ==
    /\ Running("create")
    /\ \E at \in {"post", "head"}, ex \in BOOLEAN :
         LET t == Transport(call)
             posted == rec.name # Null /\ ~(at = "post" /\ t # "ok")
             target == IF rec.id # NoId THEN rec.id ELSE Min(FreeIds(store))
             res == createBody(store, rec, indexed, t, at, ex)
         IN  /\ t = "ok" => at = "post"
             /\ (posted /\ rec.id = NoId) => FreeIds(store) # {}
             /\ Apply(res)
             /\ created' =
                  LET n == created.posts +
                           (IF posted /\ ~Remote(store[target]) THEN 1 ELSE 0)
                  IN  IF posted /\ res.exc = "none" /\ ex
                      THEN [id |-> target, name |-> rec.name,
                            fresh |-> ~Remote(store[target]), posts |-> n]
                      ELSE IF posted /\ created.id = target
                      THEN [created EXCEPT !.fresh = FALSE, !.posts = n]
                      ELSE [created EXCEPT !.posts = n]
    /\ UNCHANGED <<conn, upd>>

StepUpdate ==
    /\ Running("update")
    /\ Apply(updateBody(store, rec, indexed, Transport(call)))
    /\ UNCHANGED <<created>>
    /\ UNCHANGED <<conn, upd>>

StepDelete ==
    /\ Running("delete")
    /\ Apply(deleteBody(store, rec, indexed, Transport(call)))
    /\ UNCHANGED <<created>>
    /\ UNCHANGED <<conn, upd>>

StepCreateQueryIndex ==
    /\ Running("create_query_index")
    /\ Apply(createQueryIndexBody(store, rec, indexed, Transport(call)))
    /\ UNCHANGED <<created>>
    /\ UNCHANGED <<conn, upd>>

StepRemoveAll ==
    /\ Running("remove_all")
    /\ \E k \in -1..(MaxDocs) :
         /\ k < Listed(store, indexed)
         /\ Transport(call) = "ok" => k = -1
         /\ Apply(removeAllBody(store, rec, indexed, Transport(call), k))
    /\ UNCHANGED <<created>>
    /\ UNCHANGED <<conn, upd>>

StepAll ==
    /\ Running("all")
    /\ Apply(allBody(store, rec, indexed, Transport(call)))
    /\ UNCHANGED <<created>>
    /\ UNCHANGED <<conn, upd>>

StepFindBy ==
    /\ Running("find_by")
    /\ Apply(findByBody(store, rec, indexed, call.name, Transport(call)))
    /\ UNCHANGED <<created>>
    /\ UNCHANGED <<conn, upd>>

StepFind ==
    /\ Running("find")
    /\ Apply(findBody(store, rec, indexed, call.id, Transport(call)))
    /\ UNCHANGED <<created>>
    /\ UNCHANGED <<conn, upd>>

StepFindByName ==
    /\ Running("find_by_name")
    /\ Apply(findByNameBody(store, rec, indexed, call.name, Transport(call)))
    /\ UNCHANGED <<created>>
    /\ UNCHANGED <<conn, upd>>

Step ==
    \/ StepCreate \/ StepUpdate \/ StepDelete \/ StepCreateQueryIndex \/ StepRemoveAll
    \/ StepAll \/ StepFindBy \/ StepFind \/ StepFindByName

\* ------------------------------------------------------ the connection
\* A credential mapping: where it came from and which keys it has.  "apikey"
\* stands for any key that is not one of the five required ones.
Creds(src, keys) == [src |-> src, keys |-> keys]
NoOpts == Creds("none", {})                     \* opts = {}
KeySets == {{}, {"apikey"}, Fields} \cup {Fields \ {f} : f \in Fields}

MaxServices == 2    \* bound: services listed in VCAP_SERVICES

\* VCAP_SERVICES: the services in the order the JSON object lists them;
\* cloudant says whether the service name starts with "cloudantNoSQLDB".
Services == {[cloudant |-> c, creds |-> Creds("vcap", k)] : c \in BOOLEAN, k \in KeySets}
RECURSIVE SeqsUpTo(_, _)
SeqsUpTo(S, n) ==
    IF n = 0 THEN {<<>>}
    ELSE SeqsUpTo(S, n - 1) \cup
         {Append(q, x) : q \in {p \in SeqsUpTo(S, n - 1) : Len(p) = n - 1}, x \in S}

Envs ==
    {[vcapSet |-> v, services |-> ss, bindingSet |-> b, binding |-> Creds("binding", k)] :
        v \in BOOLEAN, ss \in SeqsUpTo(Services, MaxServices), b \in BOOLEAN, k \in KeySets}

\* the environment of a local deployment: neither binding variable is set
LocalEnv ==
    [vcapSet |-> FALSE, services |-> <<>>, bindingSet |-> FALSE,
     binding |-> Creds("binding", {})]

\* for service in vcap_services: if service.startswith(...): opts = ...
RECURSIVE ScanServices(_, _)
ScanServices(ss, found) ==
    IF ss = <<>> THEN found
    ELSE ScanServices(Tail(ss), IF Head(ss).cloudant THEN Head(ss).creds ELSE found)

check_for_cloud_foundry_binding(e) ==
    IF e.vcapSet THEN ScanServices(e.services, NoOpts) ELSE NoOpts

check_for_kubernetes_binding(e) ==
    IF e.bindingSet THEN e.binding ELSE NoOpts

check_for_local_binding == Creds("local", Fields)

\* "if not opts": the mapping is empty
Empty(o) == o.keys = {}

\* init_db asking Kubernetes before Cloud Foundry
ResolveSwapped(e) ==
    LET cf == check_for_cloud_foundry_binding(e)
        k8 == check_for_kubernetes_binding(e)
    IN  IF ~Empty(k8) THEN [opts |-> k8, probed |-> <<"binding">>]
        ELSE IF ~Empty(cf) THEN [opts |-> cf, probed |-> <<"binding", "vcap">>]
        ELSE [opts |-> check_for_local_binding, probed |-> <<"binding", "vcap", "local">>]

\* the first lines of init_db: the sources consulted and the mapping kept
Resolve(e) ==
    LET cf == check_for_cloud_foundry_binding(e)
        k8 == check_for_kubernetes_binding(e)
    IN  IF ~Empty(cf) THEN [opts |-> cf, probed |-> <<"vcap">>]
        ELSE IF ~Empty(k8) THEN [opts |-> k8, probed |-> <<"vcap", "binding">>]
        ELSE [opts |-> check_for_local_binding, probed |-> <<"vcap", "binding", "local">>]

NoClient == [obj |-> "nil", connected |-> FALSE]
LiveClient == [obj |-> "client", connected |-> TRUE]

\* what the store does to init_db's requests: "up", "down" (Cloudant(...)
\* raises requests.ConnectionError) or "refused" (it raises another error,
\* such as the HTTPError of a rejected login, which init_db does not catch)
Links == {"up", "down", "refused"}

\* init_db with the validation after the connection instead of before it
init_db_late(e, cl, db, link, confirmed) ==
    LET r == Resolve(e)
        missing == \E k \in Fields : k \notin r.opts.keys
        out(c, d, res) == [probed |-> r.probed, opts |-> r.opts, client |-> c,
                           database |-> d, dialed |-> TRUE, res |-> res]
    IN  IF link = "down" THEN out(cl, db, "DatabaseConnectionError")
        ELSE IF link = "refused" THEN out(cl, db, "HTTPError")
        ELSE IF missing THEN out(LiveClient, db, "DatabaseConnectionError")
        ELSE out(LiveClient, "db", IF confirmed THEN "ok" ELSE "DatabaseConnectionError")

\* init_db(dbname): the class attributes it leaves and how it ends.  The
\* database is found or created; confirmed is the answer of
\* Base.database.exists().
init_db(e, cl, db, link, confirmed) ==
    LET r == Resolve(e)
        out(c, d, dl, res) == [probed |-> r.probed, opts |-> r.opts, client |-> c,
                               database |-> d, dialed |-> dl, res |-> res]
    IN  IF \E k \in Fields : k \notin r.opts.keys
        THEN out(cl, db, FALSE, "DatabaseConnectionError")
        ELSE IF link = "down" THEN out(cl, db, TRUE, "DatabaseConnectionError")
        ELSE IF link = "refused" THEN out(cl, db, TRUE, "HTTPError")
        ELSE out(LiveClient, "db", TRUE,
                 IF confirmed THEN "ok" ELSE "DatabaseConnectionError")

\* the class attributes after a call of init_db that ended as o
Left(o) ==
    /\ probed' = o.probed
    /\ opts' = o.opts
    /\ client' = o.client
    /\ database' = o.database
    /\ dialed' = o.dialed
    /\ initres' = o.res

\* a call of init_db by a caller other than create_app (a test, a script)
InitDb ==
    /\ boot # "exit4"
    /\ \E link \in Links, confirmed \in BOOLEAN :
         Left(init_db(env, client, database, link, confirmed))
    /\ UNCHANGED <<env, boot>>
    /\ UNCHANGED <<crud, upd>>

\* create_app that carries on after a failure of init_db
CreateAppLenient ==
    /\ boot = "none" /\ initres = "none"
    /\ \E link \in Links, confirmed \in BOOLEAN :
         Left(init_db(env, client, database, link, confirmed))
    /\ boot' = "initialized"
    /\ UNCHANGED env
    /\ UNCHANGED <<crud, upd>>

\* create_app(): init_db inside try/except Exception; sys.exit(4) on any
\* exception, else "Service initialized!" and the app is returned
CreateApp ==
    /\ boot = "none" /\ initres = "none"
    /\ \E link \in Links, confirmed \in BOOLEAN :
         LET o == init_db(env, client, database, link, confirmed)
         IN  /\ Left(o)
             /\ boot' = IF o.res = "ok" THEN "initialized" ELSE "exit4"
    /\ UNCHANGED env
    /\ UNCHANGED <<crud, upd>>

\* connect(): cls.client.connect()
Connect ==
    /\ boot # "exit4"
    /\ client.obj # "nil"
    /\ client' = [client EXCEPT !.connected = TRUE]
    /\ UNCHANGED <<env, database, probed, opts, initres, dialed, boot>>
    /\ UNCHANGED <<crud, upd>>

\* disconnect(): cls.client.disconnect()
Disconnect ==
    /\ boot # "exit4"
    /\ client.obj # "nil"
    /\ client' = [client EXCEPT !.connected = FALSE]
    /\ UNCHANGED <<env, database, probed, opts, initres, dialed, boot>>
    /\ UNCHANGED <<crud, upd>>

\* ------------------------------------------------- concurrent updates
\* Two request threads call update() on records with the same id, one
\* document of the store.  Base.database, a dictionary of Document objects,
\* is shared by the threads; each step below is one dictionary operation or
\* one request, which is what the threads can interleave.
Threads == {1, 2}
NameOf(t) == IF t = 1 THEN "a" ELSE "b"      \* the name thread t's record carries
NoObj == 0 - 1
Kept == 0                                   \* the object cached before the calls
Objects == {Kept} \cup Threads
Conflict == 0                               \* the answer 409 to a PUT

Waiting == [pc |-> "lookup", obj |-> NoObj, tries |-> RETRY_COUNT, resp |-> Conflict,
            outcome |-> "none"]

At(t, pc) == th[t].pc = pc

\* self.database[self.id]: the cached object, or a new Document
UpdLookup(t) ==
    /\ At(t, "lookup")
    /\ th' = [th EXCEPT ![t] = IF cache # NoObj
                               THEN [@ EXCEPT !.pc = "merge", !.obj = cache]
                               ELSE [@ EXCEPT !.pc = "fetch", !.obj = t]]
    /\ UNCHANGED <<srv, cache, objs, last>>
    /\ UNCHANGED <<crud, conn>>

\* doc.exists(); doc.fetch(): the new object takes the stored fields and _rev
UpdFetch(t) ==
    /\ At(t, "fetch")
    /\ objs' = [objs EXCEPT ![t] = srv]
    /\ th' = [th EXCEPT ![t].pc = "cache"]
    /\ UNCHANGED <<srv, cache, last>>
    /\ UNCHANGED <<crud, conn>>

\* the dictionary keeps the new object and returns it
UpdCache(t) ==
    /\ At(t, "cache")
    /\ cache' = t
    /\ th' = [th EXCEPT ![t].pc = "merge"]
    /\ UNCHANGED <<srv, objs, last>>
    /\ UNCHANGED <<crud, conn>>

\* document.update(self.serialize())
UpdMerge(t) ==
    /\ At(t, "merge")
    /\ objs' = [objs EXCEPT ![th[t].obj].name = NameOf(t)]
    /\ th' = [th EXCEPT ![t].pc = "put"]
    /\ UNCHANGED <<srv, cache, last>>
    /\ UNCHANGED <<crud, conn>>

\* document.save(): the PUT of the object as it is now; the store accepts it
\* when its _rev is the stored one, and answers 409 otherwise
UpdPut(t) ==
    /\ At(t, "put")
    /\ LET doc == objs[th[t].obj]
       IN  IF doc.rev = srv.rev
           THEN /\ srv' = [rev |-> srv.rev + 1, name |-> doc.name]
                /\ last' = t
                /\ th' = [th EXCEPT ![t].pc = "resp", ![t].resp = srv.rev + 1]
           ELSE /\ th' = [th EXCEPT ![t].pc = "resp", ![t].resp = Conflict]
                /\ UNCHANGED <<srv, last>>
    /\ UNCHANGED <<cache, objs>>
    /\ UNCHANGED <<crud, conn>>

\* the answer: the object takes the new _rev and update() returns, or
\* raise_for_status() raises HTTPError and the decorator tries again or
\* gives up
UpdResp(t) ==
    /\ At(t, "resp")
    /\ IF th[t].resp # Conflict
       THEN /\ objs' = [objs EXCEPT ![th[t].obj].rev = th[t].resp]
            /\ th' = [th EXCEPT ![t].pc = "done", ![t].outcome = "ok"]
       ELSE /\ th' = [th EXCEPT ![t] =
                         IF @.tries - 1 > 0
                         THEN [@ EXCEPT !.pc = "lookup", !.tries = @ - 1]
                         ELSE [@ EXCEPT !.pc = "done", !.tries = 0, !.outcome = "HTTPError"]]
            /\ UNCHANGED objs
    /\ UNCHANGED <<srv, cache, last>>
    /\ UNCHANGED <<crud, conn>>

\* no concurrent updates in progress
InitUpd ==
    /\ srv = [rev |-> 1, name |-> "a"]
    /\ cache = NoObj
    /\ objs = [o \in Objects |-> [rev |-> 1, name |-> "a"]]
    /\ th = [t \in Threads |-> Waiting]
    /\ last = NoObj

\* a persisted document, in the dictionary (this process created or read
\* it) or not, and two threads about to call update()
InitUpdate ==
    /\ \E n \in Names : /\ srv = [rev |-> 1, name |-> n]
                       /\ objs = [o \in Objects |-> [rev |-> 1, name |-> n]]
    /\ cache \in {NoObj, Kept}
    /\ th = [t \in Threads |-> Waiting]
    /\ last = NoObj

\* ---------------------------------------------------------- specifications
InitCrud ==
    /\ store = [i \in Ids |-> Absent]
    /\ indexed = FALSE
    /\ rec = Base(Null)
    /\ call = Idle
    /\ created = NoCreated

\* the class before init_db: client = None, database = None
InitConn ==
    /\ env \in Envs
    /\ client = NoClient
    /\ database = "nil"
    /\ probed = <<>>
    /\ opts = NoOpts
    /\ initres = "none"
    /\ dialed = FALSE
    /\ boot = "none"

\* the class after create_app succeeded in a local deployment
Connected ==
    /\ env = LocalEnv
    /\ client = LiveClient
    /\ database = "db"
    /\ probed = Resolve(LocalEnv).probed
    /\ opts = Resolve(LocalEnv).opts
    /\ initres = "ok"
    /\ dialed = TRUE
    /\ boot = "initialized"

\* The record operations, on an initialized class.
Init == InitCrud /\ Connected /\ InitUpd

Next == NewRecord \/ Deserialize \/ RoundTrip \/ Invoke \/ Step

Spec == Init /\ [][Next]_vars

\* A call in progress keeps running: the decorator's loop sleeps and tries again.
LiveSpec == Spec /\ WF_vars(Step)

\* The bootstrap and the connection operations, from a process that has not
\* called init_db.
InitInit == InitCrud /\ InitConn /\ InitUpd

InitNext == CreateApp \/ InitDb \/ Connect \/ Disconnect

InitSpec == InitInit /\ [][InitNext]_vars

\* Two request threads of an initialized service updating one document.
UpdateInit == InitCrud /\ Connected /\ InitUpdate

UpdateNext ==
    \E t \in Threads :
        UpdLookup(t) \/ UpdFetch(t) \/ UpdCache(t) \/ UpdMerge(t) \/ UpdPut(t) \/ UpdResp(t)

UpdateSpec == UpdateInit /\ [][UpdateNext]_vars

\* ------------------------------------------------------------------ claims
WrappedOps == {"create_query_index", "remove_all", "all", "find_by", "find",
               "find_by_name", "update", "delete"}
RetryWrapped == WrappedOps \cup {"create"}

Done(op) == call.pc = "done" /\ call.op = op

\* one execution of the body of the call c in the state (s, r, ix)
BodyOf(c, s, r, ix, t) ==
    CASE c.op = "update" -> updateBody(s, r, ix, t)
      [] c.op = "delete" -> deleteBody(s, r, ix, t)
      [] c.op = "create_query_index" -> createQueryIndexBody(s, r, ix, t)
      [] c.op = "remove_all" -> removeAllBody(s, r, ix, t, -1)
      [] c.op = "all" -> allBody(s, r, ix, t)
      [] c.op = "find_by" -> findByBody(s, r, ix, c.name, t)
      [] c.op = "find" -> findBody(s, r, ix, c.id, t)
      [] c.op = "find_by_name" -> findByNameBody(s, r, ix, c.name, t)

\* the body returns normally when the transport works
SucceedsNow == BodyOf(call, store, rec, indexed, "ok").exc = "none"
\* the body sends a request, so a failing transport makes it raise
ContactsStore == BodyOf(call, store, rec, indexed, "other").exc = "ConnectionError"

C1_Started ==
    /\ call.pc = "run" /\ call.op \in WrappedOps /\ call.attempts = 0
    /\ call.fails < RETRY_COUNT /\ call.then = "ok"
    /\ SucceedsNow /\ ContactsStore

C1_Returned ==
    /\ call.pc = "done" /\ call.op \in WrappedOps
    /\ call.outcome = "ok"
    /\ call.attempts = call.fails + 1
    /\ call.value = BodyOf(call, store, rec, indexed, "ok").value

\* C1: a wrapped operation whose requests fail transiently on the first N
\* attempts, N < RETRY_COUNT, and then succeed, eventually returns the value
\* of attempt N+1 and raises nothing.
C1_RetryRecovers == C1_Started ~> C1_Returned

C1_Witness ==
    /\ C1_Returned /\ call.op = "update" /\ call.fails = RETRY_COUNT - 1
    /\ call.fails > 0 /\ call.reqs > call.fails

\* C2: a wrapped operation whose requests always fail transiently raises the
\* transient error after exactly RETRY_COUNT attempts.
C2_ExactlyRetryCountAttempts ==
    (call.pc = "done" /\ call.op \in WrappedOps /\ call.fails = Always /\ call.reqs > 0)
        => (call.outcome = "HTTPError" /\ call.attempts = RETRY_COUNT)

NonTransient(exc) == exc \notin {"none", "HTTPError"}

\* C3: an execution of a decorated method that raises anything but the
\* transient error is the last one: the error reaches the caller, no sleep
\* follows it, and when it is the first execution there was exactly one.
C3_NonTransientNotRetried ==
    (call.op \in RetryWrapped /\ NonTransient(call.lastexc))
        => /\ call.pc = "done"
           /\ call.outcome = call.lastexc
           /\ call.sleeps = call.attempts - 1
           /\ call.fails = 0 => (call.attempts = 1 /\ call.sleeps = 0)

C3_Witness ==
    /\ Done("all") /\ call.outcome = "ConnectionError"
    /\ call.attempts = 1 /\ call.sleeps = 0 /\ call.reqs = 1

\* C4: whenever a request made during create() fails with the transient
\* error, create() returns normally and the record stays unpersisted.
C4_CreateSwallowsTransient ==
    [][(StepCreate /\ rec.name # Null /\ Transport(call) = "http")
          => (call'.pc = "done" /\ call'.outcome = "ok" /\ rec' = rec /\ store' = store)]_vars

\* C5: create() on a record without a name raises DataValidationError at the
\* first execution, sends nothing to the store, is not tried again and
\* leaves the id unset.
C5_CreateNeedsName ==
    (call.op = "create" /\ call.attempts > 0 /\ rec.name = Null)
        => /\ call.pc = "done" /\ call.outcome = "DataValidationError"
           /\ call.attempts = 1 /\ call.sleeps = 0 /\ call.reqs = 0
           /\ rec.id = NoId

C5_Witness ==
    Done("create") /\ rec.name = Null /\ call.outcome = "DataValidationError"
        /\ call.fails > 0

FoundIs(value, name, id) ==
    /\ Cardinality(value) = 1
    /\ \A found \in value : serialize(found) = serialize([name |-> name, id |-> id])

\* C6: after a create() that returned with the id assigned, and no update
\* or delete of that id since, find(id) returns a record that serializes as
\* the created one did.
C6_FindAfterCreate ==
    (Done("find") /\ call.outcome = "ok" /\ created.id = call.id)
        => FoundIs(call.value, created.name, created.id)

\* The part of C6 that the code keeps: a create() whose POST stored a new
\* document is found again.
FindAfterFreshCreate ==
    (Done("find") /\ call.outcome = "ok" /\ created.id = call.id /\ created.fresh)
        => FoundIs(call.value, created.name, created.id)

\* C7: find(id) returns None after delete() completed on that id, and
\* whenever the id resolves to no document with a _rev, a shell included.
C7_FindDeletedIsNone ==
    /\ (Done("delete") /\ call.outcome = "ok")
          => /\ rec.id # NoId
             /\ findBody(store, rec, indexed, rec.id, "ok").exc = "none"
             /\ findBody(store, rec, indexed, rec.id, "ok").value = {}
    /\ (Done("find") /\ call.outcome = "ok" /\ ~HasRev(store[call.id]))
          => call.value = {}

C7_Witness ==
    Done("find") /\ call.outcome = "ok" /\ store[call.id].st = "shell" /\ call.value = {}

\* C8: update() on a record whose id is not in the store, a record never
\* persisted included, raises nothing and changes neither store nor record.
C8_UpdateOfMissingIsNoOp ==
    [][(StepUpdate /\ Transport(call) = "ok"
            /\ (rec.id = NoId \/ store[rec.id].st = "absent"))
          => (call'.pc = "done" /\ call'.outcome = "ok" /\ store' = store /\ rec' = rec)]_vars

\* C9: once the record's document is deleted, update() and delete() raise
\* nothing and leave no document with a revision under that id.
C9_DeletedStaysDeleted ==
    [][((StepUpdate \/ StepDelete) /\ Transport(call) = "ok"
            /\ rec.id # NoId /\ store[rec.id].st = "shell")
          => (call'.pc = "done" /\ call'.outcome = "ok" /\ ~HasRev(store'[rec.id]))]_vars

Order == <<"vcap", "binding", "local">>

Yield(src) ==
    CASE src = "vcap" -> check_for_cloud_foundry_binding(env)
      [] src = "binding" -> check_for_kubernetes_binding(env)
      [] src = "local" -> check_for_local_binding

MissingField(o) == \E k \in Fields : k \notin o.keys

\* C11 as claimed: when the resolved credentials miss one of the five
\* fields, init_db raises ConnectionConfigError before it constructs a
\* client, and leaves Base.client and Base.database as they were.
C11_MissingFieldConfigError ==
    [][((InitDb \/ CreateApp) /\ MissingField(opts'))
          => /\ initres' = "ConnectionConfigError"
             /\ ~dialed'
             /\ client' = client /\ database' = database]_vars

\* C11 amended: the same, with the error init_db raises there, which is
\* DatabaseConnectionError.
C11_MissingFieldRaisesBeforeConnect ==
    [][((InitDb \/ CreateApp) /\ MissingField(opts'))
          => /\ initres' = "DatabaseConnectionError"
             /\ ~dialed'
             /\ client' = client /\ database' = database]_vars

C11_Witness ==
    /\ initres = "DatabaseConnectionError" /\ ~dialed /\ client = NoClient
    /\ opts.src = "binding" /\ Cardinality(opts.keys) = 4

\* C12: when init_db fails during create_app the process exits with code
\* 4, after which nothing runs; the service becomes initialized only by a
\* create_app whose init_db succeeded.
C12_BootFailureIsFatal ==
    [][/\ boot # "exit4"
       /\ (CreateApp /\ initres' # "ok") => boot' = "exit4"
       /\ (boot # "initialized" /\ boot' = "initialized") => initres' = "ok"]_vars

C12_Witness ==
    boot = "exit4" /\ initres = "HTTPError" /\ dialed

\* C13: once the record has an id, create(), update(), delete(),
\* serialize() and deserialize(doc), for any doc, leave the id as it is.
C13_IdImmutable ==
    [][(rec.id # NoId /\ (Step \/ Deserialize \/ RoundTrip)) => rec'.id = rec.id]_vars

C13_Witness ==
    /\ Done("deserialize") /\ call.outcome = "ok"
    /\ rec.id = 1 /\ rec.name = "a" /\ store[1].st = "live" /\ store[1].name = "b"

\* C14: deserializing serialize(r) into a new record gives a record with
\* the name of r and, when r has an id, its id; serialize() changes neither
\* the record nor the store.
C14_RoundTrip ==
    [][RoundTrip
          => /\ rec' = rec /\ store' = store
             /\ rec.name # Null =>
                   (call'.outcome = "ok" /\ call'.value = {[name |-> rec.name, id |-> rec.id]})]_vars

C14_Witness ==
    Done("roundtrip") /\ rec.id # NoId /\ rec.name # Null /\ call.value = {rec}

BadPayloads == {data \in Payloads : ~IsDict(data) \/ "name" \notin DOMAIN data}

\* C15: deserialize(doc) raises DataValidationError for a mapping without
\* the key name and for None, and leaves the record's name and id as they
\* were.
C15_DeserializeRejects ==
    [][Deserialize
          => /\ \A data \in BadPayloads :
                   deserialize(rec, data) = [exc |-> "DataValidationError", rec |-> rec]
             /\ call'.outcome = "DataValidationError" => rec' = rec
             /\ call'.outcome = "ok" => rec'.name # Null]_vars

C15_Witness ==
    /\ Done("deserialize") /\ call.outcome = "DataValidationError"
    /\ rec.name # Null /\ rec.id # NoId /\ {None, EmptyDict} \subseteq BadPayloads

\* C16: Base.client and Base.database are set only after an init_db that
\* succeeded: they are None before init_db, after an init_db that raised,
\* and after disconnect().
C16_HandleNilUnlessInitialized ==
    (client.obj # "nil" \/ database # "nil") => (initres = "ok" /\ client.connected)

\* C17: in create(), a transient error of the document-creation request is
\* tried again while the decorator has tries left, so that N < RETRY_COUNT
\* such failures end with the record persisted.
C17_CreateRetriesTransient ==
    [][(/\ StepCreate /\ rec.name # Null /\ Transport(call) = "http"
        /\ call'.reqs = call.reqs + 1            \* the POST is the request that failed
        /\ call.attempts + 1 < RETRY_COUNT)
          => (call'.pc = "run" /\ call'.sleeps = call.sleeps + 1)]_vars

\* C19: when a call of create() has stored a document, the record's id is
\* set when the call ends.
C19_StoredImpliesIdSet ==
    (Done("create") /\ created.posts > 0) => rec.id # NoId

\* C20: one call of create() adds at most one document to the store.
C20_CreateStoresAtMostOnce ==
    call.op = "create" => created.posts <= 1

\* C18: two update() calls on one persisted id, however their steps
\* interleave, both return without an exception, and the stored document
\* then carries the fields of the call whose save completed last.
C18_ConcurrentUpdatesLastWriterWins ==
    /\ \A t \in Threads : At(t, "done") => th[t].outcome = "ok"
    /\ (\A t \in Threads : At(t, "done")) => (last \in Threads /\ srv.name = NameOf(last))

====
